---- MODULE Spec2Model ----
(***************************************************************************)
(* Model of switchy/apps/measure/metrics.py: the capped numpy buffer       *)
(* (CappedArray / CallMetrics), the views it hands out and the statistics  *)
(* computed over them.                                                     *)
(*                                                                         *)
(* A row of the buffer is a record of metric_dtype.  Two of its columns    *)
(* are modelled: `time' (one of the float64 columns) and                   *)
(* `num_failed_calls' (one of the uint32 columns).  Sequences are 1-based, *)
(* so physical slot i of the numpy array is element i + 1.                 *)
(*                                                                         *)
(* Numbers: time stamps are whole seconds.  A quotient is kept as an exact *)
(* fraction.  The numerator of a seizure fail rate is a difference of two  *)
(* uint32 scalars, which numpy computes modulo 2^32; it is kept as a pair  *)
(* <<hi, lo>> standing for hi * 2^32 + lo, so that a wrapped difference    *)
(* (hi = 1) is told apart from the true one (hi = 0).                      *)
(***************************************************************************)
EXTENDS Integers, Sequences, FiniteSets, TLC

\* ---------------------------------------------------------------- bounds
MaxCap == 3
MaxInserts == 4
MaxTime == 1
MaxNfc == 1
MaxLen == 3
MaxWindow == 3
MaxVal == 1

\* ------------------------------------------------------ program constants
RateCap == 300
WmWindow == 100

VARIABLES
    buf,        \* CappedArray._buf of the metrics buffer: the physical slots
    mi,         \* CappedArray._mi: current row insertion-index
    ncalls,     \* number of insert calls made so far
    recent,     \* the last min(ncalls, capacity) values passed to insert,
                \* oldest first
    statRead,   \* TRUE once inst_rate or wm_rate has been read
    rv,         \* the instance a reader got from .view (or NoView)
    rvSnap,     \* the rows that instance showed when it was created
    ret,        \* what the last call returned (or raised)
    \* every CappedArray instance of the process and the arrays behind them
    objs,       \* the instances in order of construction: [base, size, mi]
    mem,        \* the rows of each numpy array that was allocated or loaded
    bound,      \* the instance whose _buf the class attributes __getitem__
                \* and __setitem__ are bound to (0 before any construction)
    \* one outbound call of the IVR dialer
    answered,   \* CHANNEL_ANSWER was handled
    hungup,     \* CHANNEL_HANGUP was handled
    callvars,   \* call.vars: play_welcome, playing, incoming_dtmf
    job,        \* the Timer call.vars['dtmf_timeout_job'] refers to
    orphans,    \* started timers that nothing refers to any more
    mediaOn,    \* the switch has a playback to report as stopped
    handled,    \* the handler that ran last and the commands it sent
    \* the campaign script of the dialer and its originator
    pc,                     \* where the script is
    max_calls_per_campaign, \* configuration
    max_campaigns,          \* configuration
    campaign_cnt,           \* campaigns counted as finished
    max_offered,            \* originator.max_offered
    ostate,                 \* originator.state
    calls,                  \* originator.count_calls()
    offered,                \* calls the originator has offered so far
    starts,                 \* calls of originator.start() so far
    shutdowns               \* calls of originator.shutdown() so far

mvars == <<buf, mi, ncalls, recent, statRead, rv, rvSnap, ret>>

svars == <<objs, mem, bound>>

ivars == <<answered, hungup, callvars, job, orphans, mediaOn, handled>>

cvars == <<pc, max_calls_per_campaign, max_campaigns, campaign_cnt, max_offered,
           ostate, calls, offered, starts, shutdowns>>

vars == <<mvars, svars, ivars, cvars>>

\* ----------------------------------------------------------- metric_dtype
FieldNames == {"time", "num_failed_calls"}

metric_dtype == [time : 0..MaxTime, num_failed_calls : 0..MaxNfc]

\* np.zeros(1, dtype=metric_dtype)[0]
ZeroRow == [time |-> 0, num_failed_calls |-> 0]

NoView == [size |-> -1, mi |-> -1]

Min(a, b) == IF a < b THEN a ELSE b

\* ------------------------------------------------------- numpy primitives
\* a[:stop] for stop >= 0 on a one-dimensional array
SliceTo(a, stop) == SubSeq(a, 1, Min(stop, Len(a)))

\* a[i] for an integer i: position of the element, 0 when out of bounds
NumpyIndex(a, i) ==
    IF i >= 0 /\ i < Len(a) THEN i + 1
    ELSE IF i < 0 /\ i >= -Len(a) THEN Len(a) + i + 1
    ELSE 0

\* a[name]: one column of a structured array
Field(a, name) == [i \in 1..Len(a) |-> a[i][name]]

\* ------------------------------------------------------------ CappedArray
\* _buf[:_mi + 1]: a slice that runs one row past the insertion index
ViewPastIndex(b, m) == SliceTo(b, m + 1)

\* CappedArray._view of an instance with buffer b and index m
View(b, m) == SliceTo(b, m)

\* a column taken from _buf instead of _view
GetAttrWholeBuf(b, m, name) == Field(b, name)

\* CappedArray.__getattr__ for a field name
GetAttr(b, m, name) == Field(View(b, m), name)

\* an index computed after the increment instead of before it
InsertSlotAfterIncrement(b, m) == (m + 1) % Len(b)

\* the index and the returned flag of CappedArray.insert
InsertSlot(b, m) == m % Len(b)

InsertReturn(b, m) ==
    LET i == InsertSlot(b, m)
    IN  (m + 1 > Len(b) - 1) /\ (i = 0)

InsertBuf(b, m, value) == [b EXCEPT ![InsertSlot(b, m) + 1] = value]

\* CappedArray.view: a new instance over the slice _buf[:_mi], which shares
\* the memory of _buf; it is described by the size of the slice and its _mi
ViewInstance(b, m) == [size |-> Len(View(b, m)), mi |-> m]

\* the memory a view instance v reads when the buffer it came from holds b
ViewBuf(b, v) == SubSeq(b, 1, v.size)

\* ------------------------------------------------------------ CallMetrics
\* np.uint32 scalar subtraction a - b, as the pair <<hi, lo>> = hi * 2^32 + lo
U32Sub(a, b) == IF a >= b THEN <<0, a - b>> ELSE <<1, a - b>>

\* a seizure fail rate that guards the division and answers 0 for end = start
seizure_fail_rate_guarded(b, m, start, end) ==
    LET array == GetAttr(b, m, "num_failed_calls")
        e     == IF end < 0 THEN Len(array) + end ELSE end
        pe    == NumpyIndex(array, e)
        ps    == NumpyIndex(array, start)
    IN  IF pe = 0 \/ ps = 0 THEN [err |-> "IndexError"]
        ELSE IF e - start = 0 THEN [err |-> "none", num |-> <<0, 0>>, den |-> 1]
        ELSE [err |-> "none",
              num |-> U32Sub(array[pe], array[ps]),
              den |-> e - start]

\* CallMetrics.seizure_fail_rate(start, end) on an instance (b, m)
seizure_fail_rate(b, m, start, end) ==
    LET array == GetAttr(b, m, "num_failed_calls")
        e     == IF end < 0 THEN Len(array) + end ELSE end
        pe    == NumpyIndex(array, e)
        ps    == NumpyIndex(array, start)
    IN  IF pe = 0 \/ ps = 0 THEN [err |-> "IndexError"]
        ELSE IF e - start = 0 THEN [err |-> "ZeroDivisionError"]
        ELSE [err |-> "none",
              num |-> U32Sub(array[pe], array[ps]),
              den |-> e - start]

\* a ratio computed as sfr - 1. instead of 1. - sfr
answer_seizure_ratio_swapped(b, m, start, end) ==
    LET sfr == seizure_fail_rate(b, m, start, end)
    IN  IF sfr.err # "none" THEN sfr
        ELSE [err |-> "none",
              num |-> <<sfr.num[1], sfr.num[2] - sfr.den>>,
              den |-> sfr.den]

\* CallMetrics.answer_seizure_ratio(start, end): 1. - sfr
answer_seizure_ratio(b, m, start, end) ==
    LET sfr == seizure_fail_rate(b, m, start, end)
    IN  IF sfr.err # "none" THEN sfr
        ELSE [err |-> "none",
              num |-> <<0 - sfr.num[1], sfr.den - sfr.num[2]>>,
              den |-> sfr.den]

\* ndarray.sort(order='time'): by time, ties broken by the remaining fields
\* in dtype order
RowLess(r1, r2) ==
    \/ r1.time < r2.time
    \/ r1.time = r2.time /\ r1.num_failed_calls < r2.num_failed_calls

SortByTime(a) == SortSeq(a, RowLess)

\* a buffer whose rows are left in insertion order
SortedBufUnsorted(b, m) == b

\* the buffer after `view = self.view; view.sort(order='time')': the view
\* instance wraps the slice _buf[:_mi], so the rows of that slice are sorted
\* where they are
SortedBuf(b, m) ==
    LET L == Len(View(b, m))
    IN  SortByTime(SubSeq(b, 1, L)) \o SubSeq(b, L + 1, Len(b))

\* fractions [num, den]; den = 0 stands for the infinity numpy gives for 1./0.
RatAdd(x, y) == [num |-> x.num * y.den + y.num * x.den, den |-> x.den * y.den]

RatSub(x, y) == [num |-> x.num * y.den - y.num * x.den, den |-> x.den * y.den]

RatDivInt(x, n) == [num |-> x.num, den |-> x.den * n]

RatGreater(x, k) ==
    IF x.den = 0 THEN x.num > 0
    ELSE IF x.den > 0 THEN x.num > k * x.den
    ELSE x.num < k * x.den

\* rates left as computed
ClampNone(x) == x

\* rates[rates > 300] = 300
Clamp(x) == IF RatGreater(x, RateCap) THEN [num |-> RateCap, den |-> 1] ELSE x

\* the value CallMetrics.inst_rate returns, given the buffer after the sort
InstRates(b, m) ==
    LET t == Field(View(b, m), "time")
        L == Len(t)
    IN  [i \in 1..(IF L = 0 THEN 0 ELSE L - 1) |->
            Clamp([num |-> 1, den |-> t[i + 1] - t[i]])]

RECURSIVE CumSum(_, _)
CumSum(x, i) ==
    IF i = 1 THEN x[1] ELSE RatAdd(CumSum(x, i - 1), x[i])

\* a moving average that keeps the requested window for a shorter series
moving_avg_full_window(x, n) ==
    [i \in 1..Len(x) |->
        IF i <= n THEN RatDivInt(CumSum(x, i), n)
        ELSE RatDivInt(RatSub(CumSum(x, i), CumSum(x, i - n)), n)]

\* moving_avg(x, n)
moving_avg(x, n) ==
    LET n0 == Min(Len(x), n)
    IN  [i \in 1..Len(x) |->
            IF i <= n0 THEN RatDivInt(CumSum(x, i), n0)
            ELSE RatDivInt(RatSub(CumSum(x, i), CumSum(x, i - n0)), n0)]

\* no instance constructed yet
InitInstances ==
    /\ objs = <<>>
    /\ mem = <<>>
    /\ bound = 0

\* call.vars of a call that was just originated: every key unset, so that
\* .get() gives None (FALSE for the flags, <<>> for the digit queue)
NoCallVars == [play_welcome |-> FALSE, playing |-> FALSE, record |-> FALSE,
               incoming_dtmf |-> <<>>]

\* the script as written: one call per campaign, one campaign, an
\* originator that was just created
InitCampaign ==
    /\ pc = "configure"
    /\ max_calls_per_campaign = 1
    /\ max_campaigns = 1
    /\ campaign_cnt = 0
    /\ max_offered = 0
    /\ ostate = "INITIAL"
    /\ calls = 0
    /\ offered = 0
    /\ starts = 0
    /\ shutdowns = 0

InitCall ==
    /\ answered = FALSE
    /\ hungup = FALSE
    /\ callvars = NoCallVars
    /\ job = "None"
    /\ orphans = 0
    /\ mediaOn = FALSE
    /\ handled = [event |-> "none", digit |-> "", tick |-> 0, cmds |-> <<>>]

\* new_array(size=n): CallMetrics(np.zeros(n), 0)
new_array(n) == [i \in 1..n |-> ZeroRow]

Init ==
    /\ \E n \in 1..MaxCap : buf = new_array(n)
    /\ mi = 0
    /\ ncalls = 0
    /\ recent = <<>>
    /\ statRead = FALSE
    /\ rv = NoView
    /\ rvSnap = <<>>
    /\ ret = [op |-> "new_array"]
    /\ InitInstances
    /\ InitCall
    /\ InitCampaign

insert(value) ==
    /\ ncalls < MaxInserts
    /\ buf' = InsertBuf(buf, mi, value)
    /\ mi' = mi + 1
    /\ ret' = [op |-> "insert", val |-> InsertReturn(buf, mi)]
    /\ ncalls' = ncalls + 1
    /\ recent' = IF Len(recent) < Len(buf) THEN Append(recent, value)
                 ELSE Append(Tail(recent), value)
    /\ UNCHANGED <<statRead, rv, rvSnap>>
    /\ UNCHANGED <<svars, ivars, cvars>>

\* a reader evaluates `buffer.view' and keeps the instance
view ==
    /\ rv' = ViewInstance(buf, mi)
    /\ rvSnap' = View(buf, mi)
    /\ ret' = [op |-> "view", val |-> Len(View(buf, mi))]
    /\ UNCHANGED <<buf, mi, ncalls, recent, statRead>>
    /\ UNCHANGED <<svars, ivars, cvars>>

\* `buffer.<name>' for a field name
getattr(name) ==
    /\ ret' = [op |-> "getattr", name |-> name, val |-> GetAttr(buf, mi, name)]
    /\ UNCHANGED <<buf, mi, ncalls, recent, statRead, rv, rvSnap>>
    /\ UNCHANGED <<svars, ivars, cvars>>

\* `v.<name>' on the instance the reader holds
view_getattr(name) ==
    /\ rv # NoView
    /\ ret' = [op |-> "view.getattr", name |-> name,
               val |-> GetAttr(ViewBuf(buf, rv), rv.mi, name)]
    /\ UNCHANGED <<buf, mi, ncalls, recent, statRead, rv, rvSnap>>
    /\ UNCHANGED <<svars, ivars, cvars>>

sfr(start, end) ==
    /\ ret' = [op |-> "sfr", start |-> start, end |-> end,
               val |-> seizure_fail_rate(buf, mi, start, end)]
    /\ UNCHANGED <<buf, mi, ncalls, recent, statRead, rv, rvSnap>>
    /\ UNCHANGED <<svars, ivars, cvars>>

asr(start, end) ==
    /\ ret' = [op |-> "asr", start |-> start, end |-> end,
               val |-> answer_seizure_ratio(buf, mi, start, end)]
    /\ UNCHANGED <<buf, mi, ncalls, recent, statRead, rv, rvSnap>>
    /\ UNCHANGED <<svars, ivars, cvars>>

inst_rate ==
    /\ buf' = SortedBuf(buf, mi)
    /\ statRead' = TRUE
    /\ ret' = [op |-> "inst_rate", val |-> InstRates(buf', mi)]
    /\ UNCHANGED <<mi, ncalls, recent, rv, rvSnap>>
    /\ UNCHANGED <<svars, ivars, cvars>>

wm_rate ==
    /\ buf' = SortedBuf(buf, mi)
    /\ statRead' = TRUE
    /\ ret' = [op |-> "wm_rate", val |-> moving_avg(InstRates(buf', mi), WmWindow)]
    /\ UNCHANGED <<mi, ncalls, recent, rv, rvSnap>>
    /\ UNCHANGED <<svars, ivars, cvars>>

\* the index arguments the statistics are called with
StartArgs == 0..(MaxCap - 1)

EndArgs == (0 - MaxCap)..(MaxCap - 1)

\* the buffer, its columns and the time-ordered statistics
Next ==
    \/ \E value \in metric_dtype : insert(value)
    \/ \E name \in FieldNames : getattr(name)
    \/ inst_rate
    \/ wm_rate

Spec == Init /\ [][Next]_vars

\* a producer inserting while a reader takes views and reads through them
NextReader ==
    \/ \E value \in metric_dtype : insert(value)
    \/ view
    \/ \E name \in FieldNames : view_getattr(name)

SpecReader == Init /\ [][NextReader]_vars

\* the buffer and the index-based statistics; these read the
\* num_failed_calls column only, so the rows inserted differ in that column
StatsRows == {value \in metric_dtype : value.time = 0}

NextStats ==
    \/ \E value \in StatsRows : insert(value)
    \/ \E start \in StartArgs, end \in EndArgs : sfr(start, end)
    \/ \E start \in StartArgs, end \in EndArgs : asr(start, end)

SpecStats == Init /\ [][NextStats]_vars

\* a load that leaves the insertion index at 0
load_at_zero(array) == [buf |-> array, mi |-> 0]

\* load(path): wrapper(array, array.size) for the array read from the file
load(array) == [buf |-> array, mi |-> Len(array)]

\* a buffer loaded from a persisted array of 1..MaxCap rows
InitLoad ==
    /\ \E n \in 1..MaxCap : \E array \in [1..n -> metric_dtype] :
          /\ buf = load(array).buf
          /\ mi = load(array).mi
    /\ ncalls = 0
    /\ recent = <<>>
    /\ statRead = FALSE
    /\ rv = NoView
    /\ rvSnap = <<>>
    /\ ret = [op |-> "load"]
    /\ InitInstances
    /\ InitCall
    /\ InitCampaign

NextLoad ==
    \/ \E value \in metric_dtype : insert(value)
    \/ \E name \in FieldNames : getattr(name)

SpecLoad == InitLoad /\ [][NextLoad]_vars

\* moving_avg called on its own with a series and a window length
Series ==
    UNION {[1..m -> {[num |-> v, den |-> 1] : v \in 0..MaxVal}] : m \in 0..MaxLen}

moving_avg_call(x, n) ==
    /\ ret' = [op |-> "moving_avg", x |-> x, n |-> n, val |-> moving_avg(x, n)]
    /\ UNCHANGED <<buf, mi, ncalls, recent, statRead, rv, rvSnap>>
    /\ UNCHANGED <<svars, ivars, cvars>>

NextAvg == \E x \in Series, n \in 1..MaxWindow : moving_avg_call(x, n)

SpecAvg == Init /\ [][NextAvg]_vars

\* ------------------------------------------------------------ properties
\* number of insert calls made so far
InsertCalls == ncalls

\* the min(k, capacity) most recently inserted values, oldest first
LastInserted == recent

\* how often row r occurs in the sequence a
Occurrences(a, r) == Cardinality({i \in 1..Len(a) : a[i] = r})

\* C1: after k insert calls on a buffer from new_array the view, and every
\* column of it, has exactly min(k, capacity) rows
C1_ViewLength ==
    /\ Len(View(buf, mi)) = Min(InsertCalls, Len(buf))
    /\ \A name \in FieldNames :
          Len(GetAttr(buf, mi, name)) = Min(InsertCalls, Len(buf))
    /\ ret.op = "getattr" => Len(ret.val) = Min(InsertCalls, Len(buf))

C1_Witness ==
    /\ InsertCalls > Len(buf)
    /\ Len(buf) >= 2
    /\ ret.op = "getattr"
    /\ Len(ret.val) = Len(buf)

\* C2: the k-th insert returns true iff its logical index k - 1 is a multiple
\* of the capacity and k > capacity, for every capacity >= 1
C2_RolloverFlag ==
    ret.op = "insert" =>
        (ret.val <=> ((InsertCalls - 1) % Len(buf) = 0 /\ InsertCalls > Len(buf)))

\* C3: with statistic reads interleaved, the view always holds exactly the
\* min(k, capacity) most recently inserted records
C3_ViewHoldsMostRecent ==
    \A r \in metric_dtype :
        Occurrences(View(buf, mi), r) =
            Occurrences(LastInserted, r)

\* C4: reading inst_rate or wm_rate leaves every physical slot, the insertion
\* index, every column and every seizure fail rate as they were
C4_StatReadIsPure ==
    [][(inst_rate \/ wm_rate) =>
          /\ buf' = buf
          /\ mi' = mi
          /\ \A name \in FieldNames :
                GetAttr(buf', mi', name) = GetAttr(buf, mi, name)
          /\ \A s \in StartArgs, e \in EndArgs :
                seizure_fail_rate(buf', mi', s, e) = seizure_fail_rate(buf, mi, s, e)
      ]_vars

\* C5: after k > capacity inserts and no statistic read, the view lists the
\* last `capacity' inserted rows in insertion order, oldest first, and the
\* seizure fail rate between two rows is the slope between those rows
C5_ViewInInsertionOrder ==
    (~statRead /\ InsertCalls > Len(buf)) =>
        LET last == LastInserted
        IN  /\ View(buf, mi) = last
            /\ \A s \in 0..(Len(buf) - 1), e \in 0..(Len(buf) - 1) :
                  (s < e /\ last[s + 1].num_failed_calls <= last[e + 1].num_failed_calls)
                  => seizure_fail_rate(buf, mi, s, e) =
                        [err |-> "none",
                         num |-> <<0, last[e + 1].num_failed_calls
                                        - last[s + 1].num_failed_calls>>,
                         den |-> e - s]

\* C6: a column read through a view returns, row for row, the values the view
\* had when it was taken, whatever was inserted since
C6_ViewIsSnapshot ==
    ret.op = "view.getattr" =>
        /\ Len(ret.val) = Len(rvSnap)
        /\ ret.val = Field(rvSnap, ret.name)

\* C7: an insert writes its record into slot (insert_count mod capacity),
\* adds exactly 1 to insert_count and changes no other slot nor the capacity;
\* insert_count never decreases
C7_InsertFrame ==
    [][/\ mi' >= mi
       /\ Len(buf') = Len(buf)
       /\ Len(buf) > 0
       /\ ncalls' # ncalls =>
             LET slot == InsertCalls % Len(buf)
             IN  /\ mi = InsertCalls
                 /\ mi' = mi + 1
                 /\ buf'[slot + 1] = recent'[Len(recent')]
                 /\ \A j \in 1..Len(buf) : j # slot + 1 => buf'[j] = buf[j]
      ]_vars

C7_Witness ==
    /\ ret.op = "insert"
    /\ statRead
    /\ InsertCalls > Len(buf)
    /\ Len(buf) >= 2
    /\ buf[((InsertCalls - 1) % Len(buf)) + 1] = recent[Len(recent)]

\* C8: after k <= capacity inserts and no statistic read, every column has
\* length k and its i-th entry is that field of the i-th inserted record
C8_ColumnPreWrap ==
    (~statRead /\ InsertCalls <= Len(buf)) =>
        /\ \A name \in FieldNames :
              /\ Len(GetAttr(buf, mi, name)) = InsertCalls
              /\ \A i \in 1..InsertCalls : GetAttr(buf, mi, name)[i] = recent[i][name]
        /\ ret.op = "getattr" => ret.val = Field(recent, ret.name)

C8_Witness ==
    /\ ~statRead
    /\ InsertCalls = Len(buf)
    /\ Len(buf) >= 2
    /\ recent[1] # recent[2]
    /\ ret.op = "getattr"
    /\ ret.val = Field(recent, ret.name)

\* the num_failed_calls column of the view and the normalised end index
Nfc == GetAttr(buf, mi, "num_failed_calls")

NormEnd(end) == IF end < 0 THEN Len(Nfc) + end ELSE end

NonDecreasing(a) == \A i \in 1..Len(a) : \A j \in i..Len(a) : a[i] <= a[j]

ValidArgs(start, end) ==
    /\ 0 <= start /\ start < Len(Nfc)
    /\ 0 - Len(Nfc) <= end /\ end < Len(Nfc)
    /\ NormEnd(end) # start

\* two quotients (hi * 2^32 + lo) / den are equal
SameQuotient(x, y) ==
    /\ x.num[1] * y.den = y.num[1] * x.den
    /\ x.num[2] * y.den = y.num[2] * x.den

\* (nfc[end'] - nfc[start]) / (end' - start) with a true integer difference
Slope(start, end) ==
    [err |-> "none",
     num |-> <<0, Nfc[NormEnd(end) + 1] - Nfc[start + 1]>>,
     den |-> NormEnd(end) - start]

\* C9: on a non-decreasing num_failed_calls column, for every valid start and
\* end (end possibly negative) with end' # start, seizure_fail_rate returns
\* (nfc[end'] - nfc[start]) / (end' - start)
C9_SfrFormula ==
    (ret.op = "sfr" /\ NonDecreasing(Nfc) /\ ValidArgs(ret.start, ret.end)) =>
        /\ ret.val.err = "none"
        /\ SameQuotient(ret.val, Slope(ret.start, ret.end))

\* C10: when nfc[end] < nfc[start] the result is still the signed quotient
\* (nfc[end] - nfc[start]) / (end - start): the difference does not wrap
C10_SfrSignedDifference ==
    (/\ ret.op = "sfr"
     /\ ValidArgs(ret.start, ret.end)
     /\ Nfc[NormEnd(ret.end) + 1] < Nfc[ret.start + 1]) =>
        /\ ret.val.err = "none"
        /\ ret.val.num[1] = 0
        /\ ret.val.num[2] = Nfc[NormEnd(ret.end) + 1] - Nfc[ret.start + 1]
        /\ ret.val.den = NormEnd(ret.end) - ret.start

\* C11: seizure_fail_rate and answer_seizure_ratio called with start equal to
\* the normalised end of a row of the view raise ZeroDivisionError and return
\* no value; the call leaves the buffer and the insertion index as they were
C11_DivisionByZero ==
    [][ret'.op \in {"sfr", "asr"} =>
          /\ buf' = buf
          /\ mi' = mi
          /\ (/\ 0 <= ret'.start /\ ret'.start < Len(Nfc)
              /\ NormEnd(ret'.end) = ret'.start)
             => ret'.val = [err |-> "ZeroDivisionError"]
      ]_vars

C11_Witness ==
    /\ ret.op = "asr"
    /\ Len(Nfc) = 1
    /\ ret.start = 0
    /\ ret.end = 0 - 1
    /\ ret.val = [err |-> "ZeroDivisionError"]

SortedOccurrences(a) == SortSeq(a, LAMBDA x, y : x < y)

\* two fractions are the same number
RatEq(x, y) == x.den # 0 /\ y.den # 0 /\ x.num * y.den = y.num * x.den

\* min(300, 1 / d) for a time difference d >= 0
ExpectedRate(d) ==
    IF d = 0 \/ 1 > RateCap * d THEN [num |-> RateCap, den |-> 1]
    ELSE [num |-> 1, den |-> d]

\* C12: inst_rate returns L - 1 values for a view of L >= 1 rows and none for
\* L <= 1; every value is a number <= 300, and two rows with the same time
\* give exactly 300
C12_InstRateBounded ==
    ret.op = "inst_rate" =>
        LET L == Min(InsertCalls, Len(buf))
            t == SortedOccurrences(Field(View(buf, mi), "time"))
        IN  /\ Len(ret.val) = (IF L >= 1 THEN L - 1 ELSE 0)
            /\ \A i \in 1..Len(ret.val) :
                  /\ ret.val[i].den > 0
                  /\ ret.val[i].num <= RateCap * ret.val[i].den
                  /\ t[i + 1] = t[i] => ret.val[i] = [num |-> RateCap, den |-> 1]

C12_Witness ==
    /\ ret.op = "inst_rate"
    /\ Len(ret.val) = 2
    /\ ret.val[1] = [num |-> RateCap, den |-> 1]
    /\ ret.val[2] = [num |-> 1, den |-> 1]

\* C13: inst_rate works on the rows in ascending time order: with t the time
\* values of the view sorted ascending, element i is min(300, 1 / (t[i+1] - t[i]))
C13_InstRateTimeOrder ==
    [][inst_rate =>
          LET t == SortedOccurrences(Field(View(buf, mi), "time"))
          IN  /\ ret'.op = "inst_rate"
              /\ Len(ret'.val) = (IF Len(t) = 0 THEN 0 ELSE Len(t) - 1)
              /\ \A i \in 1..Len(ret'.val) :
                    RatEq(ret'.val[i], ExpectedRate(t[i + 1] - t[i]))
      ]_vars

C13_Witness ==
    /\ ret.op = "inst_rate"
    /\ InsertCalls = 2
    /\ Len(buf) >= 2
    /\ recent[1].time > recent[2].time
    /\ ret.val = <<[num |-> 1, den |-> recent[1].time - recent[2].time]>>

\* x[a] + ... + x[b] for a series of whole numbers (1-based, 0 when a > b)
RECURSIVE SumNum(_, _, _)
SumNum(x, a, b) == IF a > b THEN 0 ELSE x[b].num + SumNum(x, a, b - 1)

\* entry i (1-based) of a windowed sum over w entries, divided by d
WindowedMean(x, i, w, d) ==
    [num |-> SumNum(x, IF i <= w THEN 1 ELSE i - w + 1, i), den |-> d]

\* C14 as claimed: moving_avg(x, n) has the length of x and entry i is the sum
\* of the last n entries up to i divided by the full requested n, also when
\* the series is shorter than n
C14_MovingAvgFullWindow ==
    ret.op = "moving_avg" =>
        /\ Len(ret.val) = Len(ret.x)
        /\ \A i \in 1..Len(ret.x) :
              RatEq(ret.val[i], WindowedMean(ret.x, i, ret.n, ret.n))

\* C14 amended: the window and the divisor are min(m, n) for a series of
\* length m: the full n when m >= n, the length of the series when m < n
C14_MovingAvgClippedWindow ==
    ret.op = "moving_avg" =>
        LET w == Min(Len(ret.x), ret.n)
        IN  /\ Len(ret.val) = Len(ret.x)
            /\ \A i \in 1..Len(ret.x) :
                  RatEq(ret.val[i], WindowedMean(ret.x, i, w, w))

C14_Witness ==
    /\ ret.op = "moving_avg"
    /\ Len(ret.x) = 2
    /\ ret.n = 3
    /\ ret.x[1].num = 1
    /\ ret.x[2].num = 1
    /\ RatEq(ret.val[1], [num |-> 1, den |-> 2])
    /\ RatEq(ret.val[2], [num |-> 1, den |-> 1])

\* C16: a loaded buffer starts with insert_count = capacity and its view shows
\* every persisted row in persisted order; the first insert after the load
\* writes physical slot 0, returns true and leaves the view length at capacity
C16_LoadedBuffer ==
    [][/\ ncalls = 0 =>
             /\ mi = Len(buf)
             /\ View(buf, mi) = buf
             /\ ret.op = "getattr" => ret.val = Field(buf, ret.name)
       /\ (ncalls = 0 /\ ncalls' = 1) =>
             /\ ret'.op = "insert"
             /\ ret'.val = TRUE
             /\ buf'[1] = recent'[1]
             /\ \A j \in 2..Len(buf) : buf'[j] = buf[j]
             /\ Len(View(buf', mi')) = Len(buf)
      ]_vars

C16_Witness ==
    /\ ncalls = 1
    /\ ret.op = "insert"
    /\ ret.val = TRUE
    /\ Len(buf) >= 2
    /\ buf[1] = recent[1]
    /\ buf[1] # buf[2]
    /\ Len(View(buf, mi)) = Len(buf)

------------------------------------------------------------------------------
\* Subscript access: CappedArray.__init__ stores the bound methods
\* self._buf.__getitem__ and self._buf.__setitem__ on the class

MaxObjs == 3
MaxRows == 2

\* CappedArray.__init__(buf, mi): the instance keeps buf and mi, and the
\* class attributes are rebound to this instance's buf
Construct(base, size, index) ==
    /\ objs' = Append(objs, [base |-> base, size |-> size, mi |-> index])
    /\ bound' = Len(objs) + 1

\* new_array(size=n): a fresh zeroed array, insert_count 0
construct_new(n) ==
    /\ Len(objs) < MaxObjs
    /\ mem' = Append(mem, [j \in 1..n |-> ZeroRow])
    /\ Construct(Len(mem) + 1, n, 0)
    /\ ret' = [op |-> "new_array"]
    /\ UNCHANGED <<buf, mi, ncalls, recent, statRead, rv, rvSnap>>
    /\ UNCHANGED <<ivars, cvars>>

\* load(path): the persisted array, insert_count = array.size
construct_load(array) ==
    /\ Len(objs) < MaxObjs
    /\ mem' = Append(mem, array)
    /\ Construct(Len(mem) + 1, Len(array), Len(array))
    /\ ret' = [op |-> "load"]
    /\ UNCHANGED <<buf, mi, ncalls, recent, statRead, rv, rvSnap>>
    /\ UNCHANGED <<ivars, cvars>>

\* reading o.view (a statistic does so too): a new instance over the slice
\* o._buf[:o._mi], which shares o's array
construct_view(o) ==
    /\ Len(objs) < MaxObjs
    /\ Construct(objs[o].base, Min(objs[o].mi, objs[o].size), objs[o].mi)
    /\ ret' = [op |-> "view", obj |-> o]
    /\ UNCHANGED mem
    /\ UNCHANGED <<buf, mi, ncalls, recent, statRead, rv, rvSnap>>
    /\ UNCHANGED <<ivars, cvars>>

\* the instance a subscript on ANY instance is served by: the class attribute
\* is the bound method of the buf of the last constructed instance
SubscriptTarget(o) == objs[bound]

\* what reading row i of instance t's buf gives
ReadRow(t, i) ==
    IF i < t.size THEN [err |-> "none", row |-> mem[t.base][i + 1]]
                  ELSE [err |-> "IndexError"]

\* a[i] on instance o
getitem(o, i) ==
    /\ ret' = [op |-> "getitem", obj |-> o, i |-> i,
               val |-> ReadRow(SubscriptTarget(o), i)]
    /\ UNCHANGED <<objs, mem, bound>>
    /\ UNCHANGED <<buf, mi, ncalls, recent, statRead, rv, rvSnap>>
    /\ UNCHANGED <<ivars, cvars>>

\* a[i] = v on instance o
setitem(o, i, v) ==
    LET t == SubscriptTarget(o)
    IN  /\ IF i < t.size
              THEN /\ mem' = [mem EXCEPT ![t.base][i + 1] = v]
                   /\ ret' = [op |-> "setitem", obj |-> o, i |-> i, v |-> v,
                              val |-> [err |-> "none"]]
              ELSE /\ mem' = mem
                   /\ ret' = [op |-> "setitem", obj |-> o, i |-> i, v |-> v,
                              val |-> [err |-> "IndexError"]]
        /\ UNCHANGED <<objs, bound>>
        /\ UNCHANGED <<buf, mi, ncalls, recent, statRead, rv, rvSnap>>
        /\ UNCHANGED <<ivars, cvars>>

NextSubscript ==
    \/ \E n \in 1..MaxRows : construct_new(n)
    \/ \E n \in 1..MaxRows : \E array \in [1..n -> StatsRows] : construct_load(array)
    \/ \E o \in 1..Len(objs) : construct_view(o)
    \/ \E o \in 1..Len(objs), i \in 0..(MaxRows - 1) : getitem(o, i)
    \/ \E o \in 1..Len(objs), i \in 0..(MaxRows - 1) : \E v \in StatsRows :
          setitem(o, i, v)

SpecSubscript == Init /\ [][NextSubscript]_vars

\* C19: a[i] reads row i of a's own array, and a[i] = v leaves v in row i of
\* a's own array (IndexError when a has no row i)
C19_SubscriptOwnStorage ==
    /\ ret.op = "getitem" => ret.val = ReadRow(objs[ret.obj], ret.i)
    /\ ret.op = "setitem" =>
          IF ret.i < objs[ret.obj].size
             THEN /\ ret.val.err = "none"
                  /\ mem[objs[ret.obj].base][ret.i + 1] = ret.v
             ELSE ret.val.err = "IndexError"

------------------------------------------------------------------------------
\* The IVR call logic of the outbound dialer, for one outbound call

\* the symbols a DTMF event can carry in its DTMF-Digit header that the runs
\* below press: the digits of the menu, one other digit and one key that is
\* not a decimal digit
DtmfSymbols == {"0", "1", "8", "9", "*"}

Decimal == <<"0", "1", "2", "3", "4", "5", "6", "7", "8", "9">>

IsDecimal(sym) == \E k \in 1..Len(Decimal) : Decimal[k] = sym

\* int(sess['DTMF-Digit']) for a decimal digit
IntOf(sym) == (CHOOSE k \in 1..Len(Decimal) : Decimal[k] = sym) - 1

\* str(digit)
StrOf(digit) == Decimal[digit + 1]

\* incoming_dtmf = str(digit) when the queue is None, += str(digit) otherwise
AppendDigit(queue, digit) == queue \o <<StrOf(digit)>>

\* the IVR menu of on_digit without its closing reset of a full queue
MenuKeepQueue(queue) ==
    LET s0 == [queue |-> queue, cmds |-> <<>>, play |-> FALSE]
        s1 == IF s0.queue = <<"9", "1", "1">>
                 THEN [queue |-> <<>>,
                       cmds |-> Append(s0.cmds, "playback_contact_system_administrator"),
                       play |-> TRUE]
                 ELSE s0
        s2 == IF s1.queue = <<"8", "1", "1">>
                 THEN [queue |-> <<>>,
                       cmds |-> Append(s1.cmds, "playback_hello"),
                       play |-> TRUE]
                 ELSE s1
        s3 == IF s2.queue = <<"1", "1", "1">>
                 THEN [queue |-> <<>>,
                       cmds |-> Append(s2.cmds, "hangup"),
                       play |-> s2.play]
                 ELSE s2
    IN  s3

\* the IVR menu of on_digit: three independent ifs on the queue, then the
\* reset of a queue that still holds 3 digits or more
Menu(queue) ==
    LET s0 == [queue |-> queue, cmds |-> <<>>, play |-> FALSE]
        s1 == IF s0.queue = <<"9", "1", "1">>
                 THEN [queue |-> <<>>,
                       cmds |-> Append(s0.cmds, "playback_contact_system_administrator"),
                       play |-> TRUE]
                 ELSE s0
        s2 == IF s1.queue = <<"8", "1", "1">>
                 THEN [queue |-> <<>>,
                       cmds |-> Append(s1.cmds, "playback_hello"),
                       play |-> TRUE]
                 ELSE s1
        s3 == IF s2.queue = <<"1", "1", "1">>
                 THEN [queue |-> <<>>,
                       cmds |-> Append(s2.cmds, "hangup"),
                       play |-> s2.play]
                 ELSE s2
        s4 == IF s3.queue # <<>> /\ Len(s3.queue) >= 3
                 THEN [s3 EXCEPT !.queue = <<>>]
                 ELSE s3
    IN  s4

\* Timer.cancel(): a started timer that has not fired will not fire
Cancel(j) == IF j = "started" THEN "cancelled" ELSE j

\* a timer that call.vars stops referring to while it is still to fire
Orphaned(j) == IF j = "started" THEN 1 ELSE 0

\* the timers that are started and have neither fired nor been cancelled
Pending == Orphaned(job) + orphans

\* sess.breakmedia() when call.vars.get('playing') is True
BreakIfPlaying == IF callvars.playing THEN <<"breakmedia">> ELSE <<>>

\* CHANNEL_ANSWER of the outbound call: start the recording and play the
\* welcome prompt; no timer is created here
on_answer ==
    /\ ~answered
    /\ ~hungup
    /\ answered' = TRUE
    /\ callvars' = [callvars EXCEPT !.record = TRUE, !.play_welcome = TRUE]
    /\ mediaOn' = TRUE
    /\ handled' = [event |-> "answer", digit |-> "", tick |-> handled.tick,
                   cmds |-> <<"start_record", "playback_welcome">>]
    /\ UNCHANGED <<hungup, job, orphans>>
    /\ UNCHANGED <<mvars, svars, cvars>>

\* DTMF event: int() raises ValueError for a key that is not a decimal digit,
\* before anything else is done; otherwise break the media, cancel and
\* restart the timeout, append the digit and run the menu
on_digit(sym) ==
    /\ answered
    /\ ~hungup
    /\ IF IsDecimal(sym)
          THEN LET m == Menu(AppendDigit(callvars.incoming_dtmf, IntOf(sym)))
               IN  /\ callvars' = [callvars EXCEPT
                                      !.incoming_dtmf = m.queue,
                                      !.playing = IF m.play THEN TRUE ELSE @]
                   /\ mediaOn' = (mediaOn \/ m.play)
                   /\ handled' = [event |-> "digit", digit |-> sym,
                                  tick |-> 1 - handled.tick,
                                  cmds |-> BreakIfPlaying \o m.cmds]
                   /\ orphans' = orphans + Orphaned(Cancel(job))
                   /\ job' = "started"
          ELSE /\ handled' = [event |-> "ValueError", digit |-> sym,
                              tick |-> 1 - handled.tick, cmds |-> <<>>]
               /\ UNCHANGED <<callvars, mediaOn, orphans, job>>
    /\ UNCHANGED <<answered, hungup>>
    /\ UNCHANGED <<mvars, svars, cvars>>

\* a pending Timer expires and its thread runs dtmf_timeout_action(sess):
\* break the media, clear the queue, play hello, and create (not start) a
\* new Timer
timer_fire ==
    /\ Pending > 0
    /\ \E t \in {x \in {"job", "orphan"} : (x = "job" /\ job = "started")
                                            \/ (x = "orphan" /\ orphans > 0)} :
          LET fired == IF t = "job" THEN "fired" ELSE job
              left  == IF t = "job" THEN orphans ELSE orphans - 1
          IN  /\ orphans' = left + Orphaned(fired)
              /\ job' = "unstarted"
    /\ callvars' = [callvars EXCEPT !.incoming_dtmf = <<>>, !.playing = TRUE]
    /\ mediaOn' = TRUE
    /\ handled' = [event |-> "timeout", digit |-> "", tick |-> handled.tick,
                   cmds |-> BreakIfPlaying \o <<"playback_hello">>]
    /\ UNCHANGED <<answered, hungup>>
    /\ UNCHANGED <<mvars, svars, cvars>>

\* PLAYBACK_STOP event
on_playback_stop ==
    /\ mediaOn
    /\ ~hungup
    /\ callvars' = [callvars EXCEPT !.playing = FALSE, !.play_welcome = FALSE]
    /\ mediaOn' = FALSE
    /\ handled' = [event |-> "playback_stop", digit |-> "", tick |-> handled.tick,
                   cmds |-> <<>>]
    /\ UNCHANGED <<answered, hungup, job, orphans>>
    /\ UNCHANGED <<mvars, svars, cvars>>

\* CHANNEL_HANGUP event; the timeout job is left as it is
on_hangup ==
    /\ ~hungup
    /\ hungup' = TRUE
    /\ callvars' = [callvars EXCEPT !.play_welcome = FALSE]
    /\ mediaOn' = FALSE
    /\ handled' = [event |-> "hangup", digit |-> "", tick |-> handled.tick,
                   cmds |-> <<>>]
    /\ UNCHANGED <<answered, job, orphans>>
    /\ UNCHANGED <<mvars, svars, cvars>>

NextIvr ==
    \/ on_answer
    \/ \E sym \in DtmfSymbols : on_digit(sym)
    \/ timer_fire
    \/ on_playback_stop
    \/ on_hangup

SpecIvr == Init /\ [][NextIvr]_vars

\* a started Timer does expire
SpecIvrFair == SpecIvr /\ WF_vars(timer_fire)

MenuActions == {"playback_contact_system_administrator", "playback_hello", "hangup"}

\* cmds holds menu action c once and no other menu action
OnlyOnce(cmds, c) == \A a \in MenuActions : Occurrences(cmds, a) = (IF a = c THEN 1 ELSE 0)

\* C17: on_digit appends the digit to the queue; a queue of 911, 811, 111
\* issues its own action exactly once and is reset; any other queue of 3
\* digits is reset without action; a shorter queue is kept without action;
\* the queue is shorter than 3 digits when on_digit returns (a key that is
\* not a decimal digit makes on_digit raise before it changes anything)
C17_MenuDispatch ==
    [][handled'.tick # handled.tick =>
          LET sym   == handled'.digit
              q     == callvars.incoming_dtmf \o <<sym>>
              cmds  == handled'.cmds
              after == callvars'.incoming_dtmf
          IN  IF IsDecimal(sym)
                 THEN /\ handled'.event = "digit"
                      /\ q = <<"9", "1", "1">> =>
                            /\ OnlyOnce(cmds, "playback_contact_system_administrator")
                            /\ after = <<>>
                      /\ q = <<"8", "1", "1">> =>
                            /\ OnlyOnce(cmds, "playback_hello")
                            /\ after = <<>>
                      /\ q = <<"1", "1", "1">> =>
                            /\ OnlyOnce(cmds, "hangup")
                            /\ after = <<>>
                      /\ (/\ Len(q) >= 3
                          /\ q \notin {<<"9", "1", "1">>, <<"8", "1", "1">>, <<"1", "1", "1">>}) =>
                            /\ \A a \in MenuActions : Occurrences(cmds, a) = 0
                            /\ after = <<>>
                      /\ Len(q) < 3 =>
                            /\ \A a \in MenuActions : Occurrences(cmds, a) = 0
                            /\ after = q
                      /\ Len(after) < 3
                 ELSE /\ handled'.event = "ValueError"
                      /\ UNCHANGED <<callvars, job>>
      ]_vars

C17_Witness ==
    /\ handled.event = "digit"
    /\ handled.digit = "1"
    /\ handled.cmds = <<"breakmedia", "playback_contact_system_administrator">>
    /\ callvars.incoming_dtmf = <<>>
    /\ callvars.playing

\* the answered call is waiting for digits: the welcome prompt has stopped,
\* or a digit was entered, and the timeout action has not run since
Waiting ==
    /\ answered
    /\ ~hungup
    /\ job # "unstarted"
    /\ \/ handled.event = "digit"
       \/ handled.event = "playback_stop" /\ ~callvars.play_welcome

\* C18: whenever the answered call is waiting for digits and no further DTMF
\* event arrives, the timeout action eventually runs; it breaks a current
\* playback, clears the queue and plays hello; at most one timeout is pending
C18_TimeoutOnSilence ==
    /\ [](Pending <= 1)
    /\ [][handled'.event = "timeout" /\ handled' # handled =>
             /\ callvars.playing => Occurrences(handled'.cmds, "breakmedia") = 1
             /\ Occurrences(handled'.cmds, "playback_hello") = 1
             /\ callvars'.incoming_dtmf = <<>>
         ]_vars
    /\ \A t \in {0, 1} :
          (Waiting /\ handled.tick = t)
             ~> (handled.event = "timeout" \/ handled.tick # t \/ hungup)

\* C20: once the timeout action has run for a call that is still up, a new
\* timeout is armed (a started timer is pending), so that it can run again
C20_TimeoutRearmed ==
    (handled.event = "timeout" /\ ~hungup) => Pending >= 1

------------------------------------------------------------------------------
\* The campaign script of the outbound dialer and the originator it drives

MaxCampaigns == 3
MaxCallsPerCampaign == 2

\* originator.start(): the originator begins to originate calls
OriginatorStart ==
    /\ ostate' = "ORIGINATING"
    /\ starts' = starts + 1

\* the three configurable variables are set and the originator is given its
\* limit and max_offered
configure(campaigns, per_campaign) ==
    /\ pc = "configure"
    /\ max_campaigns' = campaigns
    /\ max_calls_per_campaign' = per_campaign
    /\ max_offered' = per_campaign
    /\ pc' = "start"
    /\ UNCHANGED <<campaign_cnt, ostate, calls, offered, starts, shutdowns>>
    /\ UNCHANGED <<mvars, svars, ivars>>

\* originator.start(); campaign_cnt = 0
initial_start ==
    /\ pc = "start"
    /\ OriginatorStart
    /\ campaign_cnt' = 0
    /\ pc' = "poll_state"
    /\ UNCHANGED <<max_calls_per_campaign, max_campaigns, max_offered, calls,
                   offered, shutdowns>>
    /\ UNCHANGED <<mvars, svars, ivars>>

\* while True: the left operand of the test, originator.state == "STOPPED"
poll_state ==
    /\ pc = "poll_state"
    /\ pc' = IF ostate = "STOPPED" THEN "poll_count" ELSE "sleep"
    /\ UNCHANGED <<max_calls_per_campaign, max_campaigns, campaign_cnt,
                   max_offered, ostate, calls, offered, starts, shutdowns>>
    /\ UNCHANGED <<mvars, svars, ivars>>

\* the same with the break taken one campaign late
poll_count_break_late ==
    /\ pc = "poll_count"
    /\ IF calls = 0
          THEN /\ campaign_cnt' = campaign_cnt + 1
               /\ IF campaign_cnt + 1 > max_campaigns
                     THEN /\ pc' = "shutdown"
                          /\ UNCHANGED <<max_offered, ostate, starts>>
                     ELSE /\ max_offered' = max_offered + max_calls_per_campaign
                          /\ OriginatorStart
                          /\ pc' = "sleep"
          ELSE /\ pc' = "sleep"
               /\ UNCHANGED <<campaign_cnt, max_offered, ostate, starts>>
    /\ UNCHANGED <<max_calls_per_campaign, max_campaigns, calls, offered, shutdowns>>
    /\ UNCHANGED <<mvars, svars, ivars>>

\* the right operand, originator.count_calls() == 0, and the body of the if:
\* count the campaign, break after the last one, otherwise raise max_offered
\* and start the originator again
poll_count ==
    /\ pc = "poll_count"
    /\ IF calls = 0
          THEN /\ campaign_cnt' = campaign_cnt + 1
               /\ IF campaign_cnt + 1 >= max_campaigns
                     THEN /\ pc' = "shutdown"
                          /\ UNCHANGED <<max_offered, ostate, starts>>
                     ELSE /\ max_offered' = max_offered + max_calls_per_campaign
                          /\ OriginatorStart
                          /\ pc' = "sleep"
          ELSE /\ pc' = "sleep"
               /\ UNCHANGED <<campaign_cnt, max_offered, ostate, starts>>
    /\ UNCHANGED <<max_calls_per_campaign, max_campaigns, calls, offered, shutdowns>>
    /\ UNCHANGED <<mvars, svars, ivars>>

\* time.sleep(1), then the next round of the loop
sleep ==
    /\ pc = "sleep"
    /\ pc' = "poll_state"
    /\ UNCHANGED <<max_calls_per_campaign, max_campaigns, campaign_cnt,
                   max_offered, ostate, calls, offered, starts, shutdowns>>
    /\ UNCHANGED <<mvars, svars, ivars>>

\* after the loop: originator.shutdown()
shutdown ==
    /\ pc = "shutdown"
    /\ shutdowns' = shutdowns + 1
    /\ pc' = "done"
    /\ UNCHANGED <<max_calls_per_campaign, max_campaigns, campaign_cnt,
                   max_offered, ostate, calls, offered, starts>>
    /\ UNCHANGED <<mvars, svars, ivars>>

\* the originator offers one more call: it is originating, has offered fewer
\* than max_offered and has fewer than `limit' calls up
originate ==
    /\ ostate = "ORIGINATING"
    /\ offered < max_offered
    /\ calls < max_calls_per_campaign
    /\ offered' = offered + 1
    /\ calls' = calls + 1
    /\ UNCHANGED <<pc, max_calls_per_campaign, max_campaigns, campaign_cnt,
                   max_offered, ostate, starts, shutdowns>>
    /\ UNCHANGED <<mvars, svars, ivars>>

\* the originator has offered max_offered calls and stops
stop_originating ==
    /\ ostate = "ORIGINATING"
    /\ offered >= max_offered
    /\ ostate' = "STOPPED"
    /\ UNCHANGED <<pc, max_calls_per_campaign, max_campaigns, campaign_cnt,
                   max_offered, calls, offered, starts, shutdowns>>
    /\ UNCHANGED <<mvars, svars, ivars>>

\* one of the calls that are up ends
call_ends ==
    /\ calls > 0
    /\ calls' = calls - 1
    /\ UNCHANGED <<pc, max_calls_per_campaign, max_campaigns, campaign_cnt,
                   max_offered, ostate, offered, starts, shutdowns>>
    /\ UNCHANGED <<mvars, svars, ivars>>

NextCampaign ==
    \/ \E campaigns \in 1..MaxCampaigns, per_campaign \in 1..MaxCallsPerCampaign :
          configure(campaigns, per_campaign)
    \/ initial_start
    \/ poll_state
    \/ poll_count
    \/ sleep
    \/ shutdown
    \/ originate
    \/ stop_originating
    \/ call_ends

SpecCampaign == Init /\ [][NextCampaign]_vars

\* the script keeps running, and every started campaign does offer its
\* calls, stop, and see its calls end
SpecCampaignFair ==
    /\ SpecCampaign
    /\ WF_vars(\/ \E campaigns \in 1..MaxCampaigns,
                      per_campaign \in 1..MaxCallsPerCampaign :
                      configure(campaigns, per_campaign)
               \/ initial_start
               \/ poll_state
               \/ poll_count
               \/ sleep
               \/ shutdown)
    /\ WF_vars(originate)
    /\ WF_vars(stop_originating)
    /\ WF_vars(call_ends)

\* C21: a campaign after the first is started only when the originator is
\* STOPPED with no calls, and max_offered is raised by max_calls_per_campaign
\* in the same round; never more than max_campaigns campaigns are started;
\* shutdown is called at most once, and when it has been called exactly
\* max_campaigns campaigns were started and the last one has finished; the
\* script does reach that point
C21_CampaignLoop ==
    /\ [][(starts' # starts /\ starts >= 1) =>
             /\ ostate = "STOPPED"
             /\ calls = 0
             /\ starts' = starts + 1
             /\ max_offered' = max_offered + max_calls_per_campaign
         ]_vars
    /\ [](starts <= max_campaigns)
    /\ [](shutdowns <= 1)
    /\ [](shutdowns = 1 =>
             /\ starts = max_campaigns
             /\ campaign_cnt = max_campaigns
             /\ ostate = "STOPPED"
             /\ calls = 0
             /\ offered = max_campaigns * max_calls_per_campaign)
    /\ <>(pc = "done" /\ shutdowns = 1)

C21_Witness ==
    /\ pc = "done"
    /\ shutdowns = 1
    /\ max_campaigns = 2
    /\ max_calls_per_campaign = 2
    /\ starts = 2
    /\ max_offered = 4
    /\ offered = 4
====
